---- MODULE Spec2Model ----
(***************************************************************************)
(* Model of mmpose/models/heads/heatmap_heads/cpm_head.py (class CPMHead): *)
(* construction (__init__, _make_deconv_layers), forward, predict, loss.   *)
(*                                                                         *)
(* Tensors are abstracted to the attributes the head changes or reads:     *)
(*   id    which backbone feature map (position in feats) it derives from  *)
(*   ch    channel count                                                   *)
(*   h     spatial size                                                    *)
(*   batch number of samples; iterating a tensor yields slices 1..batch    *)
(* Python None is the record None; an Optional sequence is Some(seq).      *)
(***************************************************************************)
EXTENDS Integers, Sequences, FiniteSets, TLC

\* ------------------------------------------------------------------ bounds
MaxStages == 2
MaxLayers == 2
MaxBatch == 2

\* --------------------------------------------------------- input domains
InChannelValues == {3}
OutChannelValues == {17}
KernelValues == {2, 3, 4, 5}
SizeValues == {8}
LossConstValues == {1, 3}

None == [isNone |-> TRUE, val |-> <<>>]
Some(s) == [isNone |-> FALSE, val |-> s]

\* Python truthiness of an Optional sequence: None and () are falsy.
Truthy(o) == ~o.isNone /\ Len(o.val) > 0

Min(a, b) == IF a < b THEN a ELSE b

\* Width sequences: absent, empty, and for each length a growing and a
\* constant sequence.
WidthSeqs ==
    {None} \cup
    UNION {{Some([i \in 1..k |-> 16 * i]), Some([i \in 1..k |-> 32])} :
             k \in 0..MaxLayers}

\* Kernel-size sequences: absent, or any sequence over KernelValues.
KernelSeqs ==
    {None} \cup {Some(s) : s \in UNION {[1..k -> KernelValues] :
                                          k \in 0..MaxLayers}}

\* A loss config is one dict (isList = FALSE, one spec) or a list of dicts.
\* A spec describes the evaluator it builds: a stub returning the constant c
\* on every call (perPred = FALSE), or an evaluator whose value depends on
\* the prediction it is given (perPred = TRUE).
StubLoss(c) == [c |-> c, perPred |-> FALSE]

LossConfigs ==
    {[isList |-> FALSE, specs |-> <<StubLoss(c)>>] : c \in LossConstValues}
    \cup {[isList |-> FALSE, specs |-> <<[c |-> 1, perPred |-> TRUE]>>]}
    \cup {[isList |-> TRUE,
           specs |-> [i \in 1..k |-> IF i = 1 THEN StubLoss(3)
                                     ELSE StubLoss(1)]] :
            k \in 0..(MaxStages + 1)}

Configs ==
    [in_channels : InChannelValues,
     out_channels : OutChannelValues,
     num_stages : 0..MaxStages,
     deconv_out_channels : WidthSeqs,
     deconv_kernel_sizes : KernelSeqs,
     has_final_layer : BOOLEAN,
     loss : LossConfigs,
     decoder : BOOLEAN]

\* The configurations the call behaviours start from: those of Configs whose
\* kernel sequence differs from all-4 in at most one position and, when no
\* widths are configured (the kernel sizes are then unused), has at most one
\* entry.
CallConfigs ==
    {c \in Configs :
        c.deconv_kernel_sizes.isNone
        \/ /\ Cardinality({i \in DOMAIN c.deconv_kernel_sizes.val :
                             c.deconv_kernel_sizes.val[i] # 4}) <= 1
           /\ Truthy(c.deconv_out_channels)
                \/ Len(c.deconv_kernel_sizes.val) <= 1}

\* ------------------------------------------------------------ error kinds
NoErr == "none"
ErrLossLength == "ValueError: length of loss_module did not match num_stages"
ErrDeconvLength == "ValueError: deconv_out_channels and deconv_kernel_sizes unmatched"
ErrKernelSize == "ValueError: Unsupported kernel size"
ErrAssert == "AssertionError: length of feature maps did not match num_stages"
ErrNoDecoder == "RuntimeError: decoder has not been set"
ErrIndex == "IndexError: list index out of range"
ConfigErrors == {ErrLossLength, ErrDeconvLength, ErrKernelSize}

\* ------------------------------------------------- _make_deconv_layers
Padding(kernel_size) == IF kernel_size = 2 THEN 0 ELSE 1
OutputPadding(kernel_size) == IF kernel_size = 3 THEN 1 ELSE 0

\* Variant of KernelSupported: the else branch is taken only below 2.
KernelSupportedFromTwo(kernel_size) == kernel_size >= 2

\* The if/elif/else chain on kernel_size: TRUE for the three accepted sizes.
KernelSupported(kernel_size) ==
    kernel_size = 4 \/ kernel_size = 3 \/ kernel_size = 2

\* One pass of the zip loop from layer i on. acc = [err, layers, built]:
\* layers is the list handed to nn.Sequential, built the components built
\* so far (in order).
RECURSIVE MakeLayersFrom(_, _, _, _, _)
MakeLayersFrom(i, in_ch, widths, kernels, acc) ==
    IF i > Min(Len(widths), Len(kernels)) THEN acc
    ELSE IF ~KernelSupported(kernels[i])
         THEN [acc EXCEPT !.err = ErrKernelSize]
    ELSE MakeLayersFrom(i + 1, widths[i], widths, kernels,
            [err |-> NoErr,
             layers |-> acc.layers \o
                 << [type |-> "deconv", in_channels |-> in_ch,
                     out_channels |-> widths[i], kernel_size |-> kernels[i],
                     stride |-> 2, padding |-> Padding(kernels[i]),
                     output_padding |-> OutputPadding(kernels[i])],
                    [type |-> "BatchNorm2d", in_channels |-> widths[i],
                     out_channels |-> widths[i], kernel_size |-> 0,
                     stride |-> 1, padding |-> 0, output_padding |-> 0],
                    [type |-> "ReLU", in_channels |-> widths[i],
                     out_channels |-> widths[i], kernel_size |-> 0,
                     stride |-> 1, padding |-> 0, output_padding |-> 0] >>,
             built |-> acc.built \o <<"deconv", "BatchNorm2d", "ReLU">>])

\* Variant of make_deconv_layers: a layer is built before its kernel size is
\* looked up.
RECURSIVE MakeLayersBuildFirst(_, _, _, _, _)
MakeLayersBuildFirst(i, in_ch, widths, kernels, acc) ==
    IF i > Min(Len(widths), Len(kernels)) THEN acc
    ELSE LET a == [err |-> IF KernelSupported(kernels[i]) THEN NoErr
                           ELSE ErrKernelSize,
                   layers |-> acc.layers \o
                       << [type |-> "deconv", in_channels |-> in_ch,
                           out_channels |-> widths[i],
                           kernel_size |-> kernels[i],
                           stride |-> 2, padding |-> Padding(kernels[i]),
                           output_padding |-> OutputPadding(kernels[i])],
                          [type |-> "BatchNorm2d", in_channels |-> widths[i],
                           out_channels |-> widths[i], kernel_size |-> 0,
                           stride |-> 1, padding |-> 0, output_padding |-> 0],
                          [type |-> "ReLU", in_channels |-> widths[i],
                           out_channels |-> widths[i], kernel_size |-> 0,
                           stride |-> 1, padding |-> 0, output_padding |-> 0] >>,
                   built |-> acc.built \o <<"deconv", "BatchNorm2d", "ReLU">>]
         IN IF a.err # NoErr THEN a
            ELSE MakeLayersBuildFirst(i + 1, widths[i], widths, kernels, a)

make_deconv_layers_late(in_channels, layer_out_channels, layer_kernel_sizes) ==
    MakeLayersBuildFirst(1, in_channels, layer_out_channels,
                         layer_kernel_sizes,
                         [err |-> NoErr, layers |-> <<>>, built |-> <<>>])

make_deconv_layers(in_channels, layer_out_channels, layer_kernel_sizes) ==
    MakeLayersFrom(1, in_channels, layer_out_channels, layer_kernel_sizes,
                   [err |-> NoErr, layers |-> <<>>, built |-> <<>>])

\* ------------------------------------------------------------- __init__
\* MODELS.build(loss): one evaluator for a dict, an nn.Sequential holding
\* one evaluator per entry for a list.
BuildLoss(loss) ==
    [isSequential |-> loss.isList,
     evaluators |-> [i \in 1..Len(loss.specs) |-> loss.specs[i]]]

LossBuilt(loss) == [i \in 1..Len(loss.specs) |-> "loss"]

\* Variant of LossLengthMismatch: only a list that is too long is rejected.
LossLengthTooLong(loss, num_stages) ==
    loss.isList /\ Len(loss.specs) > num_stages

\* isinstance(loss, list) and len(loss) != num_stages
LossLengthMismatch(loss, num_stages) ==
    loss.isList /\ Len(loss.specs) # num_stages

\* Variant of DeconvLengthMismatch: only the None test is made.
DeconvKernelsMissing(deconv_out_channels, deconv_kernel_sizes) ==
    deconv_kernel_sizes.isNone

\* deconv_kernel_sizes is None or len(deconv_out_channels) != len(deconv_kernel_sizes)
DeconvLengthMismatch(deconv_out_channels, deconv_kernel_sizes) ==
    \/ deconv_kernel_sizes.isNone
    \/ Len(deconv_out_channels.val) # Len(deconv_kernel_sizes.val)

\* if deconv_out_channels:
HasDeconv(deconv_out_channels) == Truthy(deconv_out_channels)

IdentityBranch == [identity |-> TRUE, layers |-> <<>>]
IdentityFinal == [identity |-> TRUE, in_channels |-> 0, out_channels |-> 0]

\* for _ in range(num_stages): append(_make_deconv_layers(...)); the first
\* failing call raises out of the loop. acc = [err, branches, built].
RECURSIVE BuildBranches(_, _, _, _, _)
BuildBranches(n, in_channels, widths, kernels, acc) ==
    IF n = 0 \/ acc.err # NoErr THEN acc
    ELSE LET m == make_deconv_layers(in_channels, widths, kernels)
         IN BuildBranches(n - 1, in_channels, widths, kernels,
              IF m.err # NoErr
              THEN [err |-> m.err, branches |-> acc.branches,
                    built |-> acc.built \o m.built]
              ELSE [err |-> NoErr,
                    branches |-> Append(acc.branches,
                                   [identity |-> FALSE, layers |-> m.layers]),
                    built |-> acc.built \o m.built \o <<"Sequential">>])

EmptySelf ==
    [num_stages |-> 0, in_channels |-> 0, out_channels |-> 0,
     loss_module |-> [isSequential |-> FALSE, evaluators |-> <<>>],
     decoder |-> None,
     multi_deconv_layers |-> <<>>,
     multi_final_layers |-> <<>>]

\* The whole constructor. Result: err (NoErr when the head is returned),
\* self (the attributes assigned so far) and built (every component built so
\* far, in build order).
init(c) ==
    LET S == c.num_stages
        s0 == [EmptySelf EXCEPT !.num_stages = S,
                                !.in_channels = c.in_channels,
                                !.out_channels = c.out_channels]
    IN
    IF LossLengthMismatch(c.loss, S)
    THEN [err |-> ErrLossLength, self |-> s0, built |-> <<>>]
    ELSE
    LET s1 == [s0 EXCEPT !.loss_module = BuildLoss(c.loss),
                         !.decoder = IF c.decoder THEN Some(<<"codec">>)
                                     ELSE None]
        b1 == LossBuilt(c.loss)
                 \o (IF c.decoder THEN <<"decoder">> ELSE <<>>)
    IN
    IF HasDeconv(c.deconv_out_channels)
       /\ DeconvLengthMismatch(c.deconv_out_channels, c.deconv_kernel_sizes)
    THEN [err |-> ErrDeconvLength, self |-> s1, built |-> b1]
    ELSE
    LET br == IF HasDeconv(c.deconv_out_channels)
              THEN BuildBranches(S, c.in_channels,
                                 c.deconv_out_channels.val,
                                 c.deconv_kernel_sizes.val,
                                 [err |-> NoErr, branches |-> <<>>,
                                  built |-> <<>>])
              ELSE [err |-> NoErr,
                    branches |-> [i \in 1..S |-> IdentityBranch],
                    built |-> [i \in 1..S |-> "Identity"]]
        s2 == [s1 EXCEPT !.multi_deconv_layers = br.branches]
        b2 == b1 \o br.built
    IN
    IF br.err # NoErr
    THEN [err |-> br.err, self |-> s2, built |-> b2]
    ELSE
    LET in_channels ==
            IF HasDeconv(c.deconv_out_channels)
            THEN c.deconv_out_channels.val[Len(c.deconv_out_channels.val)]
            ELSE c.in_channels
        finals ==
            IF c.has_final_layer
            THEN [i \in 1..S |->
                    [identity |-> FALSE, in_channels |-> in_channels,
                     out_channels |-> c.out_channels]]
            ELSE [i \in 1..S |-> IdentityFinal]
        b3 == b2 \o [i \in 1..S |->
                       IF c.has_final_layer THEN "Conv2d" ELSE "Identity"]
    IN [err |-> NoErr,
        self |-> [s2 EXCEPT !.multi_final_layers = finals],
        built |-> b3]

\* -------------------------------------------------------------- forward
\* A layer applied to a tensor: a stride-2 transposed convolution sets the
\* channel count to its out_channels and maps the spatial size h to
\* (h - 1) * stride - 2 * padding + kernel_size + output_padding;
\* BatchNorm2d and ReLU keep the shape.
ApplyLayer(layer, t) ==
    IF layer.type = "deconv"
    THEN [t EXCEPT !.ch = layer.out_channels,
                   !.h = (t.h - 1) * layer.stride - 2 * layer.padding
                           + layer.kernel_size + layer.output_padding]
    ELSE t

RECURSIVE ApplyLayers(_, _, _)
ApplyLayers(layers, i, t) ==
    IF i > Len(layers) THEN t
    ELSE ApplyLayers(layers, i + 1, ApplyLayer(layers[i], t))

\* self.multi_deconv_layers[i](x): nn.Identity or nn.Sequential
ApplyBranch(branch, t) ==
    IF branch.identity THEN t ELSE ApplyLayers(branch.layers, 1, t)

\* Variant of ApplyFinal: the projection keeps its input's channel count.
ApplyFinalKeep(final, t) == t

\* self.multi_final_layers[i](y): nn.Identity or the 1x1 Conv2d
ApplyFinal(final, t) ==
    IF final.identity THEN t ELSE [t EXCEPT !.ch = final.out_channels]

RECURSIVE ForwardLoop(_, _, _, _)
ForwardLoop(self, feats, i, out) ==
    IF i > self.num_stages THEN out
    ELSE ForwardLoop(self, feats, i + 1,
            Append(out, ApplyFinal(self.multi_final_layers[i],
                           ApplyBranch(self.multi_deconv_layers[i],
                                       feats[i]))))

\* Variant of forward: only a feats sequence that is too short is rejected.
forward_short_only(self, feats) ==
    IF Len(feats) < self.num_stages
    THEN [err |-> ErrAssert, out |-> <<>>, applied |-> 0]
    ELSE LET out == ForwardLoop(self, feats, 1, <<>>)
         IN [err |-> NoErr, out |-> out, applied |-> Len(out)]

\* Result: err, out (the returned list) and applied (how many stages had
\* their branch and projection applied before the call ended).
forward(self, feats) ==
    IF Len(feats) # self.num_stages
    THEN [err |-> ErrAssert, out |-> <<>>, applied |-> 0]
    ELSE LET out == ForwardLoop(self, feats, 1, <<>>)
         IN [err |-> NoErr, out |-> out, applied |-> Len(out)]

\* -------------------------------------------------------------- predict
\* Iterating a batched tensor yields one slice per sample.
Slice(t, k) == [id |-> t.id, ch |-> t.ch, h |-> t.h, idx |-> k]

NoKeypoints == [id |-> 0, h |-> 0, idx |-> 0]

\* The codec turns one sample's heatmaps into keypoint coordinates: they
\* depend on which heatmap was decoded and on its resolution.
DecodeKeypoints(s) == [id |-> s.id, h |-> s.h, idx |-> s.idx]

\* BaseHead.decode: fails when no decoder is bound; otherwise stores the
\* decoded keypoints of sample k in batch_data_samples[k] and returns the
\* samples.
decode(self, batch_outputs, batch_data_samples) ==
    IF self.decoder.isNone
    THEN [err |-> ErrNoDecoder, preds |-> <<>>]
    ELSE [err |-> NoErr,
          preds |-> [k \in 1..Len(batch_data_samples) |->
              IF k <= batch_outputs.batch
              THEN [batch_data_samples[k] EXCEPT
                      !.keys = @ \cup {"pred_instances"},
                      !.pred_instances =
                          DecodeKeypoints(Slice(batch_outputs, k))]
              ELSE batch_data_samples[k]]]

\* test_cfg.get('output_heatmaps', False)
OutputHeatmaps(test_cfg) == test_cfg.hasKey /\ test_cfg.val

\* container.heatmaps = value
SetHeatmaps(fields, value) ==
    {f \in fields : f.name # "heatmaps"}
        \cup {[name |-> "heatmaps", val |-> value]}

\* Body of the zip loop: the membership test, the fresh PixelData and the
\* assignment of the heatmaps field.
StoreHeatmaps(data_sample, heatmaps) ==
    LET d == IF "pred_fileds" \notin data_sample.keys
             THEN [data_sample EXCEPT !.keys = @ \cup {"pred_fields"},
                                      !.pred_fields = {}]
             ELSE data_sample
    IN [d EXCEPT !.pred_fields = SetHeatmaps(@, heatmaps)]

\* Variant of predict: the first stage's heatmaps are decoded and stored.
predict_first_stage(self, feats, batch_data_samples, test_cfg) ==
    LET f == forward(self, feats) IN
    IF f.err # NoErr
    THEN [err |-> f.err, preds |-> <<>>, decoded |-> <<>>]
    ELSE IF Len(f.out) = 0
    THEN [err |-> ErrIndex, preds |-> <<>>, decoded |-> <<>>]
    ELSE
    LET batch_heatmaps == f.out[1]
        d == decode(self, batch_heatmaps, batch_data_samples)
    IN
    IF d.err # NoErr
    THEN [err |-> d.err, preds |-> <<>>, decoded |-> <<>>]
    ELSE [err |-> NoErr,
          decoded |-> d.preds,
          preds |-> IF OutputHeatmaps(test_cfg)
                    THEN [k \in 1..Len(d.preds) |->
                            IF k <= batch_heatmaps.batch
                            THEN StoreHeatmaps(d.preds[k],
                                               Slice(batch_heatmaps, k))
                            ELSE d.preds[k]]
                    ELSE d.preds]

\* Variant of predict: without a decoder the samples are returned undecoded.
predict_skip_decode(self, feats, batch_data_samples, test_cfg) ==
    LET f == forward(self, feats) IN
    IF f.err # NoErr
    THEN [err |-> f.err, preds |-> <<>>, decoded |-> <<>>]
    ELSE IF Len(f.out) = 0
    THEN [err |-> ErrIndex, preds |-> <<>>, decoded |-> <<>>]
    ELSE
    LET batch_heatmaps == f.out[Len(f.out)]
        d == IF self.decoder.isNone
             THEN [err |-> NoErr, preds |-> batch_data_samples]
             ELSE decode(self, batch_heatmaps, batch_data_samples)
    IN [err |-> NoErr,
        decoded |-> d.preds,
        preds |-> IF OutputHeatmaps(test_cfg)
                  THEN [k \in 1..Len(d.preds) |->
                          IF k <= batch_heatmaps.batch
                          THEN StoreHeatmaps(d.preds[k],
                                             Slice(batch_heatmaps, k))
                          ELSE d.preds[k]]
                  ELSE d.preds]

\* Result: err, preds (the returned list) and decoded (what decode returned,
\* before any heatmap was stored).
predict(self, feats, batch_data_samples, test_cfg) ==
    LET f == forward(self, feats) IN
    IF f.err # NoErr
    THEN [err |-> f.err, preds |-> <<>>, decoded |-> <<>>]
    ELSE IF Len(f.out) = 0
    THEN [err |-> ErrIndex, preds |-> <<>>, decoded |-> <<>>]
    ELSE
    LET batch_heatmaps == f.out[Len(f.out)]
        d == decode(self, batch_heatmaps, batch_data_samples)
    IN
    IF d.err # NoErr
    THEN [err |-> d.err, preds |-> <<>>, decoded |-> <<>>]
    ELSE [err |-> NoErr,
          decoded |-> d.preds,
          preds |-> IF OutputHeatmaps(test_cfg)
                    THEN [k \in 1..Len(d.preds) |->
                            IF k <= batch_heatmaps.batch
                            THEN StoreHeatmaps(d.preds[k],
                                               Slice(batch_heatmaps, k))
                            ELSE d.preds[k]]
                    ELSE d.preds]

\* ----------------------------------------------------------------- loss
\* loss_func(pred, gt_heatmaps, keypoint_weights): a stub evaluator returns
\* its constant; a prediction-dependent one returns a value that tells the
\* predictions of different stages apart.
LossFunc(evaluator, pred, gt_heatmaps, keypoint_weights) ==
    IF evaluator.perPred THEN evaluator.c * pred.id ELSE evaluator.c

\* pose_pck_accuracy(...)[1]: the average accuracy of the scored output,
\* abstracted to the stage whose output was scored.
PckAvgAcc(output, target, mask) == output.id

EmptyDict == [k \in {} |-> 0]

\* isinstance(self.loss_module, nn.Sequential) ? loss_module[i] : loss_module
StageLossFunc(self, i) ==
    IF self.loss_module.isSequential
    THEN self.loss_module.evaluators[i]
    ELSE self.loss_module.evaluators[1]

\* Variant of Accumulate: every stage assigns instead of adding.
AccumulateOverwrite(losses, loss_i) ==
    ("loss_kpt" :> loss_i) @@ losses

\* losses['loss_kpt'] = loss_i on the first stage, += loss_i afterwards
Accumulate(losses, loss_i) ==
    IF "loss_kpt" \notin DOMAIN losses
    THEN ("loss_kpt" :> loss_i) @@ losses
    ELSE [losses EXCEPT !["loss_kpt"] = @ + loss_i]

RECURSIVE LossLoop(_, _, _, _, _, _)
LossLoop(self, preds, gt, w, i, losses) ==
    IF i > self.num_stages THEN losses
    ELSE LossLoop(self, preds, gt, w, i + 1,
            Accumulate(losses,
                       LossFunc(StageLossFunc(self, i), preds[i], gt, w)))

loss(self, feats, batch_data_samples) ==
    LET f == forward(self, feats) IN
    IF f.err # NoErr
    THEN [err |-> f.err, losses |-> EmptyDict]
    ELSE
    LET gt_heatmaps == Len(batch_data_samples)
        keypoint_weights == Len(batch_data_samples)
        losses == LossLoop(self, f.out, gt_heatmaps, keypoint_weights, 1,
                           EmptyDict)
    IN
    IF Len(f.out) = 0
    THEN [err |-> ErrIndex, losses |-> EmptyDict]
    ELSE [err |-> NoErr,
          losses |-> ("acc_pose" :> PckAvgAcc(f.out[Len(f.out)],
                                              gt_heatmaps, keypoint_weights))
                     @@ losses]

\* ------------------------------------------------------- the state machine
VARIABLES
    cfg,        \* the construction arguments
    stage,      \* "new", "ready" (a head exists) or "failed" (__init__ raised)
    self,       \* the head's attributes
    built,      \* components built by __init__, in build order
    init_err,   \* the error __init__ raised, NoErr if none
    call        \* the last call on the head: arguments and outcome

vars == <<cfg, stage, self, built, init_err, call>>

NoTestCfg == [hasKey |-> FALSE, val |-> FALSE]

NoCall ==
    [op |-> "none", feats |-> <<>>, samples |-> <<>>, test_cfg |-> NoTestCfg,
     err |-> NoErr, out |-> <<>>, applied |-> 0, preds |-> <<>>,
     decoded |-> <<>>, losses |-> EmptyDict]

\* Feature maps as the backbone supplies them: n maps of one batch size,
\* each with the head's input channel count.
Feats(n, b, in_channels) ==
    {[i \in 1..n |-> [id |-> i, ch |-> in_channels, h |-> h, batch |-> b]] :
        h \in SizeValues}

\* Data samples as they reach the head: without prediction fields, with a
\* prediction-field container holding another field, or with one that
\* already holds heatmaps.
OldField(name, k) == [name |-> name, val |-> [id |-> 0, ch |-> 1, h |-> 1, idx |-> k]]

SampleKinds == {"plain", "fields", "heatmaps"}

Samples(b, kind) ==
    [k \in 1..b |->
        [keys |-> IF kind = "plain" THEN {"gt_fields"}
                  ELSE {"gt_fields", "pred_fields"},
         pred_fields |->
             IF kind = "plain" THEN {}
             ELSE IF kind = "fields" THEN {OldField("seg", k)}
             ELSE {OldField("seg", k), OldField("heatmaps", k)},
         pred_instances |-> NoKeypoints]]

TestCfgs == {NoTestCfg, [hasKey |-> TRUE, val |-> FALSE],
             [hasKey |-> TRUE, val |-> TRUE]}

\* Lengths of feats tried on a head of S stages: one short, exact, one long.
FeatLens(S) == {n \in 0..(MaxStages + 1) : n - S \in -1..1}

BatchSizes == {MaxBatch}

Init ==
    /\ cfg \in CallConfigs
    /\ stage = "new"
    /\ self = EmptySelf
    /\ built = <<>>
    /\ init_err = NoErr
    /\ call = NoCall

\* CPMHead(**cfg)
Construct ==
    /\ stage = "new"
    /\ LET r == init(cfg) IN
        /\ stage' = IF r.err = NoErr THEN "ready" ELSE "failed"
        /\ self' = r.self
        /\ built' = r.built
        /\ init_err' = r.err
    /\ UNCHANGED <<cfg, call>>

\* head.forward(feats)
Forward ==
    /\ stage = "ready"
    /\ \E n \in FeatLens(self.num_stages), b \in BatchSizes :
       \E feats \in Feats(n, b, self.in_channels) :
         LET r == forward(self, feats) IN
         call' = [NoCall EXCEPT !.op = "forward", !.feats = feats,
                                !.err = r.err, !.out = r.out,
                                !.applied = r.applied]
    /\ UNCHANGED <<cfg, stage, self, built, init_err>>

\* head.predict(feats, batch_data_samples, test_cfg)
Predict ==
    /\ stage = "ready"
    /\ \E n \in FeatLens(self.num_stages), b \in BatchSizes, kind \in SampleKinds,
          test_cfg \in TestCfgs :
       \E feats \in Feats(n, b, self.in_channels) :
         LET samples == Samples(b, kind)
             r == predict(self, feats, samples, test_cfg)
         IN
         call' = [NoCall EXCEPT !.op = "predict", !.feats = feats,
                                !.samples = samples, !.test_cfg = test_cfg,
                                !.err = r.err, !.preds = r.preds,
                                !.decoded = r.decoded]
    /\ UNCHANGED <<cfg, stage, self, built, init_err>>

\* head.loss(feats, batch_data_samples)
Loss ==
    /\ stage = "ready"
    /\ \E n \in FeatLens(self.num_stages), b \in BatchSizes :
       \E feats \in Feats(n, b, self.in_channels) :
         LET samples == Samples(b, "plain")
             r == loss(self, feats, samples)
         IN
         call' = [NoCall EXCEPT !.op = "loss", !.feats = feats,
                                !.samples = samples,
                                !.err = r.err, !.losses = r.losses]
    /\ UNCHANGED <<cfg, stage, self, built, init_err>>

Next == Construct \/ Forward \/ Predict \/ Loss

Spec == Init /\ [][Next]_vars

\* Construction alone, from every configuration of Configs.
InitCtor ==
    /\ cfg \in Configs
    /\ stage = "new"
    /\ self = EmptySelf
    /\ built = <<>>
    /\ init_err = NoErr
    /\ call = NoCall

NextCtor == Construct

SpecCtor == InitCtor /\ [][NextCtor]_vars

\* ------------------------------------------------------------ properties
Range(f) == {f[i] : i \in DOMAIN f}

Count(f, x) == Cardinality({i \in DOMAIN f : f[i] = x})

Last(q) == q[Len(q)]

\* cfg carries a kernel-size sequence with a value outside {2, 3, 4}.
HasBadKernel ==
    /\ ~cfg.deconv_kernel_sizes.isNone
    /\ \E i \in DOMAIN cfg.deconv_kernel_sizes.val :
          cfg.deconv_kernel_sizes.val[i] \notin {2, 3, 4}

\* Position of the first kernel size outside {2, 3, 4}.
FirstBadKernel ==
    CHOOSE i \in DOMAIN cfg.deconv_kernel_sizes.val :
        /\ cfg.deconv_kernel_sizes.val[i] \notin {2, 3, 4}
        /\ \A j \in 1..(i - 1) : cfg.deconv_kernel_sizes.val[j] \in {2, 3, 4}

\* Both sequences are given (not None) and their lengths differ.
LengthsDiffer ==
    /\ ~cfg.deconv_out_channels.isNone
    /\ ~cfg.deconv_kernel_sizes.isNone
    /\ Len(cfg.deconv_out_channels.val) # Len(cfg.deconv_kernel_sizes.val)

WidthsConfigured ==
    ~cfg.deconv_out_channels.isNone /\ Len(cfg.deconv_out_channels.val) > 0

\* C1: forward on feats of length num_stages (>= 1) returns num_stages
\* outputs in stage order; output i has out_channels channels with a final
\* layer, the last deconv width without a final layer when widths are
\* configured, and the channel count of feats[i] otherwise.
C1_ForwardShape ==
    (/\ call.op = "forward"
     /\ cfg.num_stages >= 1
     /\ Len(call.feats) = cfg.num_stages)
    => /\ call.err = NoErr
       /\ Len(call.out) = cfg.num_stages
       /\ \A i \in 1..cfg.num_stages :
            /\ call.out[i].id = call.feats[i].id
            /\ call.out[i].ch =
                 IF cfg.has_final_layer THEN cfg.out_channels
                 ELSE IF WidthsConfigured THEN Last(cfg.deconv_out_channels.val)
                 ELSE call.feats[i].ch

C1_Witness ==
    /\ call.op = "forward"
    /\ call.err = NoErr
    /\ cfg.num_stages = 2
    /\ Len(call.out) = 2
    /\ cfg.has_final_layer
    /\ WidthsConfigured
    /\ Len(cfg.deconv_out_channels.val) = 2
    /\ call.out[2].ch = cfg.out_channels

\* C2: forward on feats whose length differs from num_stages (shorter or
\* longer) fails with the assertion error, returns nothing and has applied
\* no stage's branch or projection.
C2_ForwardLengthMismatch ==
    (call.op = "forward" /\ Len(call.feats) # cfg.num_stages)
    => /\ call.err = ErrAssert
       /\ call.out = <<>>
       /\ call.applied = 0

C2_Witness ==
    /\ call.op = "forward"
    /\ cfg.num_stages >= 1
    /\ Len(call.feats) > cfg.num_stages
    /\ call.err = ErrAssert

C4_LossListLength ==
    /\ (stage # "new" /\ cfg.loss.isList
          /\ Len(cfg.loss.specs) # cfg.num_stages)
       => (stage = "failed" /\ init_err = ErrLossLength /\ built = <<>>)
    /\ (stage # "new" /\ ~cfg.loss.isList) => init_err # ErrLossLength

C4_Witness ==
    /\ stage = "failed"
    /\ init_err = ErrLossLength
    /\ cfg.loss.isList
    /\ Len(cfg.loss.specs) < cfg.num_stages
    /\ cfg.decoder

StageLoss(spec, id) == IF spec.perPred THEN spec.c * id ELSE spec.c

\* Sum over stages 1..n of the stage's loss value; a loss list binds spec i
\* to stage i, a single loss config binds its one spec to every stage.
RECURSIVE SumStages(_)
SumStages(n) ==
    IF n = 0 THEN 0
    ELSE StageLoss(IF cfg.loss.isList THEN cfg.loss.specs[n]
                   ELSE cfg.loss.specs[1],
                   call.feats[n].id)
         + SumStages(n - 1)

\* C6: loss on a valid input (feats of length num_stages >= 1) returns a
\* mapping with exactly the keys loss_kpt and acc_pose; loss_kpt is the sum
\* over the stages of the value of the stage's evaluator (the i-th of a loss
\* list, the shared one otherwise), hence num_stages * c for a shared
\* evaluator returning c.
C6_LossSum ==
    (/\ call.op = "loss"
     /\ cfg.num_stages >= 1
     /\ Len(call.feats) = cfg.num_stages)
    => /\ call.err = NoErr
       /\ DOMAIN call.losses = {"loss_kpt", "acc_pose"}
       /\ call.losses["loss_kpt"] = SumStages(cfg.num_stages)
       /\ (~cfg.loss.isList /\ ~cfg.loss.specs[1].perPred)
            => call.losses["loss_kpt"] = cfg.num_stages * cfg.loss.specs[1].c

C6_Witness ==
    /\ call.op = "loss"
    /\ call.err = NoErr
    /\ cfg.num_stages = 2
    /\ ~cfg.loss.isList
    /\ cfg.loss.specs[1] = StubLoss(3)
    /\ call.losses["loss_kpt"] = 6

\* The heatmaps field of a prediction-field container, as a set of values.
HeatmapsOf(sample) ==
    {f.val : f \in {g \in sample.pred_fields : g.name = "heatmaps"}}

\* The final stage's output for the feats of the last call.
FinalOutput == Last(forward(self, call.feats).out)

\* C7: a successful predict returns one result per sample; with
\* output_heatmaps true result k carries as its heatmaps the k-th slice of
\* the final stage's output (the one derived from feats[num_stages]); with
\* output_heatmaps false or absent the results are what decode returned, no
\* heatmap attached; the decoded keypoints of result k are those of the k-th
\* slice of the final stage's output in both cases.
C7_PredictHeatmaps ==
    (call.op = "predict" /\ call.err = NoErr)
    => /\ Len(call.preds) = Len(call.samples)
       /\ \A k \in 1..Len(call.preds) :
            /\ call.preds[k].pred_instances =
                 DecodeKeypoints(Slice(FinalOutput, k))
            /\ call.preds[k].pred_instances.id = cfg.num_stages
            /\ IF OutputHeatmaps(call.test_cfg)
               THEN /\ "pred_fields" \in call.preds[k].keys
                    /\ HeatmapsOf(call.preds[k]) = {Slice(FinalOutput, k)}
                    /\ \A v \in HeatmapsOf(call.preds[k]) :
                          v.id = cfg.num_stages /\ v.idx = k
               ELSE /\ call.preds[k].keys =
                          call.samples[k].keys \cup {"pred_instances"}
                    /\ call.preds[k].pred_fields = call.samples[k].pred_fields

C7_Witness ==
    /\ call.op = "predict"
    /\ call.err = NoErr
    /\ OutputHeatmaps(call.test_cfg)
    /\ cfg.num_stages = 2
    /\ Len(call.preds) = 2
    /\ HeatmapsOf(call.preds[2]) = {Slice(FinalOutput, 2)}

\* C8 as stated: predict on a head built without a decoder fails with the
\* missing-decoder error for every feats and every test_cfg.
C8_AsStated ==
    (call.op = "predict" /\ ~cfg.decoder /\ cfg.num_stages >= 1)
    => call.err = ErrNoDecoder

\* C8 amended: predict on a head built without a decoder never returns a
\* result list; it fails with the missing-decoder error when feats has
\* num_stages (>= 1) entries and with the assertion error of forward when
\* the length of feats differs from num_stages.
C8_NoDecoderFails ==
    (call.op = "predict" /\ ~cfg.decoder)
    => /\ call.err # NoErr
       /\ call.preds = <<>>
       /\ (Len(call.feats) = cfg.num_stages /\ cfg.num_stages >= 1)
            => call.err = ErrNoDecoder
       /\ Len(call.feats) # cfg.num_stages => call.err = ErrAssert

C8_Witness ==
    /\ call.op = "predict"
    /\ ~cfg.decoder
    /\ cfg.num_stages >= 1
    /\ Len(call.feats) = cfg.num_stages
    /\ call.err = ErrNoDecoder
    /\ OutputHeatmaps(call.test_cfg)

\* C9 as stated: whenever construction ends in a configuration error, no
\* component has been built.
C9_AsStated ==
    (stage = "failed" /\ cfg.num_stages >= 1) => built = <<>>

\* C9 amended: each check precedes the components built after it in the
\* constructor. On a loss-length error nothing has been built; on a
\* width/kernel length error only loss evaluators and the decoder have been
\* built; on a kernel-size error loss evaluators, the decoder and the layers
\* of the first branch that precede the first unsupported kernel have been
\* built. In no failing run has a branch been completed or a projection
\* been built.
C9_ChecksPrecedeBuilds ==
    stage = "failed"
    => /\ init_err \in ConfigErrors
       /\ Range(built) \cap {"Sequential", "Identity", "Conv2d"} = {}
       /\ self.multi_deconv_layers = <<>>
       /\ self.multi_final_layers = <<>>
       /\ init_err = ErrLossLength => built = <<>>
       /\ init_err = ErrDeconvLength
            => Range(built) \subseteq {"loss", "decoder"}
       /\ init_err = ErrKernelSize
            => /\ Count(built, "deconv") = FirstBadKernel - 1
               /\ Count(built, "loss") = Len(cfg.loss.specs)
               /\ Count(built, "decoder") = IF cfg.decoder THEN 1 ELSE 0

C9_Witness ==
    /\ stage = "failed"
    /\ init_err = ErrKernelSize
    /\ Count(built, "deconv") = 1
    /\ Count(built, "decoder") = 1

\* C10: with output_heatmaps true, every field other than heatmaps that a
\* result's prediction-field container held when decode returned it is
\* still in the container when predict returns.
C10_ExistingFieldsKept ==
    (call.op = "predict" /\ call.err = NoErr
       /\ OutputHeatmaps(call.test_cfg))
    => \A k \in 1..Len(call.preds) :
         "pred_fields" \in call.decoded[k].keys
         => \A f \in call.decoded[k].pred_fields :
              f.name # "heatmaps" => f \in call.preds[k].pred_fields

====
